---- MODULE Spec2Model ----
(***************************************************************************)
(* Model of eft_stats.py: the task-graph pipeline that main() builds       *)
(* (unique values, kernels, masks, convolutions, threshold sum), the       *)
(* scheduler that executes the submitted tasks, and the array operations   *)
(* _mask_by_value, _make_radius_kernel and _add_thresholds.                *)
(*                                                                         *)
(* Conventions.  A search radius is kept as a whole number k of half units *)
(* (search_radius = k/2), so round(search_radius/pixel_size) and the       *)
(* comparison with .05*min_raster_size are exact integer computations.     *)
(* A path is a record [dir, stem, ext]; a stem is [prefix, name, nums],    *)
(* the pieces an f-string puts together.                                   *)
(***************************************************************************)
EXTENDS Integers, Sequences, FiniteSets, TLC

\* ------------------------------------------------------------------ bounds
MaxRasters == 2
MaxRadii == 2
MaxHalfSteps == 4
MaxCells == 3
MaxCategory == 2
MaxNPixels == 3

\* --------------------------------------------------------------- constants
NODATA == -1
target_nodata == 2

VARIABLES
    args,                       \* parsed command line: raster paths, radii, force
    pc,                         \* position of main()
    eft_idx,                    \* index of the raster the current loop is on
    radius_idx,                 \* index of the radius / kernel entry in the inner loop
    task_list,                  \* every add_task call, in order
    status,                     \* per task: "pending", "done" or "failed"
    files,                      \* artifact path -> content, for the files that exist
    kernel_lookup_by_n_pixels,  \* n_pixels -> [path, task]
    unique_task,                \* the local variable unique_task of main()
    kernel_task,                \* the local variable kernel_task of main()
    kernel_path_list,           \* entries [search_radius, kernel_path, kernel_task]
    raster_stats_list,          \* entries saved by the first loop
    unique_todo,                \* unique values the second loop still has to visit
    unique_value,               \* the loop variable of the second loop
    mask_task,                  \* the local variable mask_task
    convolution_raster_list,    \* [bound, items]: unbound before its first assignment
    convolution_task_list,      \* [bound, items]: unbound before its first assignment
    base_array,                 \* input cells of the array-operation harness
    base_nodata,                \* their declared no-data value, or None
    mask_value,                 \* the category asked for
    n_pixels,                   \* the kernel radius asked for
    target_array                \* what the array operation wrote, << >> before

vars == << args, pc, eft_idx, radius_idx, task_list, status, files,
           kernel_lookup_by_n_pixels, unique_task, kernel_task, kernel_path_list,
           raster_stats_list, unique_todo, unique_value, mask_task,
           convolution_raster_list, convolution_task_list,
           base_array, base_nodata, mask_value, n_pixels, target_array >>

main_vars == << args, pc, eft_idx, radius_idx, task_list, status, files,
                kernel_lookup_by_n_pixels, unique_task, kernel_task,
                kernel_path_list, raster_stats_list, unique_todo, unique_value,
                mask_task, convolution_raster_list, convolution_task_list >>

array_vars == << base_array, base_nodata, mask_value, n_pixels, target_array >>

\* ------------------------------------------------------------------- paths
Stem(prefix, name, nums) == [prefix |-> prefix, name |-> name, nums |-> nums]

Path(dir, stem, ext) == [dir |-> dir, stem |-> stem, ext |-> ext]

workspace_dir == << Stem("", "_eft_stats_workspace", << >>) >>

\* os.path.basename(os.path.splitext(path)[0])
basename(path) == path.stem

\* str(value)[0] for a non-negative integer: its leading decimal digit
RECURSIVE FirstChar(_)
FirstChar(value) == IF value < 10 THEN value ELSE FirstChar(value \div 10)

\* -------------------------------------------------------- the input rasters
\* What get_raster_info and get_unique_values return for the rasters on disk.
\* reach[c] is the smallest kernel radius in pixels at which, at the observed
\* cell, the neighbourhood of the mask of c holds a cell of c.
RasterPaths ==
    { Path(<< Stem("", "a", << >>) >>, Stem("", "x", << >>), "tif"),
      Path(<< Stem("", "b", << >>) >>, Stem("", "x", << >>), "tif"),
      Path(<< Stem("", "a", << >>) >>, Stem("", "y", << >>), "tif") }

RasterInfo(path) ==
    IF path.dir[1].name = "a" /\ path.stem.name = "x"
    THEN [pixel_size |-> 1, raster_size |-> << 40, 60 >>,
          unique |-> {1, 2}, reach |-> [c \in {1, 2} |-> c]]
    ELSE IF path.dir[1].name = "b"
    THEN [pixel_size |-> 1, raster_size |-> << 30, 10 >>,
          unique |-> {1}, reach |-> [c \in {1} |-> 1]]
    ELSE [pixel_size |-> 2, raster_size |-> << 20, 25 >>,
          unique |-> {}, reach |-> [c \in {} |-> 1]]

Min(a, b) == IF a <= b THEN a ELSE b

\* Python 3 round() of the non-negative rational num/den: half to even
round(num, den) ==
    LET q == num \div den
        r == num % den
    IN  IF 2 * r < den THEN q
        ELSE IF 2 * r > den THEN q + 1
        ELSE IF q % 2 = 0 THEN q ELSE q + 1

min_raster_size(path) ==
    RasterInfo(path).pixel_size *
        Min(RasterInfo(path).raster_size[1], RasterInfo(path).raster_size[2])

\* search_radius > .05*min_raster_size, with search_radius = k/2
TooLarge(k, path) == 10 * k > min_raster_size(path)

\* round(search_radius/raster_info['pixel_size'][0]), with search_radius = k/2
n_pixels_of(k, path) == round(k, 2 * RasterInfo(path).pixel_size)

local_working_dir(path) == workspace_dir \o << basename(path) >>

kernel_path_of(path, n) ==
    Path(local_working_dir(path), Stem("kernel_", "", << n >>), "tif")

mask_raster_path_of(working_dir, value) ==
    Path(working_dir, Stem("", "", << value >>), "tif")

convolution_raster_path_of(working_dir, mask_path, value, k) ==
    Path(working_dir,
         Stem("", "", << FirstChar(basename(mask_path).nums[1]), value, k >>),
         "tif")

eft_count_raster_path_of(path) ==
    Path(workspace_dir, Stem("eft_count_", basename(path).name, << >>), "tif")

\* --------------------------------------------------------- array operations
\* Cell values: finite numbers, and the two kinds of non-finite value.
Num(v) == [cls |-> "finite", v |-> v]
NaN == [cls |-> "nan", v |-> 0]
Inf == [cls |-> "inf", v |-> 0]
None == [cls |-> "none", v |-> 0]

\* numpy ==, != and isfinite on one cell: NaN is unequal to everything
np_eq(a, b) == a.cls # "nan" /\ b.cls # "nan" /\ a = b
np_ne(a, b) == ~np_eq(a, b)
isfinite(a) == a.cls = "finite"

\* _mask_op of _mask_by_value, on the cells of the raster
mask_op(array, nodata, value) ==
    [i \in 1..Len(array) |->
        LET valid == IF nodata # None THEN np_ne(array[i], nodata)
                     ELSE isfinite(array[i])
        IN  IF valid THEN (IF np_eq(array[i], value) THEN 1 ELSE 0)
            ELSE target_nodata]

\* the disc with its centre one row higher than its centre column
circle_mask_rowshift(n) ==
    [r \in 1..(2 * n) |-> [c \in 1..(2 * n) |->
        ((c - 1) - n) * ((c - 1) - n) + (r - n) * (r - n) < n * n]]

\* circle_mask of _make_radius_kernel: row r, column c hold kernel values r-1, c-1
circle_mask(n) ==
    [r \in 1..(2 * n) |-> [c \in 1..(2 * n) |->
        ((c - 1) - n) * ((c - 1) - n) + ((r - 1) - n) * ((r - 1) - n) < n * n]]

\* _add_threshold_op at one cell: result starts at NODATA, +1 per base value > 0
RECURSIVE add_threshold_op(_)
add_threshold_op(base_values) ==
    IF base_values = << >> THEN NODATA
    ELSE add_threshold_op(Tail(base_values)) +
         (IF Head(base_values) > 0 THEN 1 ELSE 0)

\* ------------------------------------------------------------ the task graph
\* One record per add_task call.  eft is the index of the raster whose loop
\* iteration made the call (bookkeeping of the model, not a task attribute).
Task(func, task_args, target_path_list, dependent_task_list, eft) ==
    [func |-> func, args |-> task_args, target_path_list |-> target_path_list,
     dependent_task_list |-> dependent_task_list, eft |-> eft]

Tasks == 1..Len(task_list)

\* what a raster file holds: a kernel's grid, or the (raster, value) a mask was
\* made of, or the value of a count raster at the observed cell
Content(array, mask_of, count) ==
    [array |-> array, mask_of |-> mask_of, count |-> count]

Exists(path) == path \in DOMAIN files

Unbound == [bound |-> FALSE, items |-> << >>]
Bound(items) == [bound |-> TRUE, items |-> items]

eft_raster_path_list == args.raster_path_list

InjectiveSeqs(S, n) ==
    { q \in [1..n -> S] : \A a, b \in 1..n : a # b => q[a] # q[b] }

ArgsChoices ==
    [raster_path_list : UNION { InjectiveSeqs(RasterPaths, n) : n \in 1..MaxRasters },
     search_radius : UNION { [1..n -> 1..MaxHalfSteps] : n \in 1..MaxRadii },
     force : BOOLEAN]

InitMain ==
    /\ eft_idx = 1
    /\ radius_idx = 1
    /\ task_list = << >>
    /\ status = << >>
    /\ files = << >>
    /\ kernel_lookup_by_n_pixels = << >>
    /\ unique_task = 0
    /\ kernel_task = 0
    /\ kernel_path_list = << >>
    /\ raster_stats_list = << >>
    /\ unique_todo = {}
    /\ unique_value = 0
    /\ mask_task = 0
    /\ convolution_raster_list = Unbound
    /\ convolution_task_list = Unbound

IdleArrays ==
    /\ base_array = << >>
    /\ base_nodata = None
    /\ mask_value = None
    /\ n_pixels = 0
    /\ target_array = << >>

Init ==
    /\ args \in ArgsChoices
    /\ pc = "add_unique"
    /\ InitMain
    /\ IdleArrays

add_task(task) ==
    /\ task_list' = Append(task_list, task)
    /\ status' = Append(status, "pending")

\* lines 108-121: the unique-values task of the next raster
AddUniqueTask ==
    /\ pc = "add_unique"
    /\ add_task(Task("get_unique_values", << eft_raster_path_list[eft_idx] >>,
                     << >>, << >>, eft_idx))
    /\ unique_task' = Len(task_list) + 1
    /\ kernel_path_list' = << >>
    /\ radius_idx' = 1
    /\ pc' = "radius"
    /\ UNCHANGED << args, eft_idx, files, kernel_lookup_by_n_pixels, kernel_task,
                    raster_stats_list, unique_todo, unique_value, mask_task,
                    convolution_raster_list, convolution_task_list, array_vars >>

InRadiusLoop ==
    /\ pc = "radius"
    /\ radius_idx <= Len(args.search_radius)

\* line 126
Rejected(search_radius, path) == ~args.force /\ TooLarge(search_radius, path)

\* the cache test answering "not cached" whatever the cache holds
InKernelCache_never(n, lookup) == FALSE

\* line 137
InKernelCache(n, lookup) == n \in DOMAIN lookup

\* lines 126-133
RaiseValueError ==
    /\ InRadiusLoop
    /\ Rejected(args.search_radius[radius_idx], eft_raster_path_list[eft_idx])
    /\ pc' = "ValueError"
    /\ UNCHANGED << args, eft_idx, radius_idx, task_list, status, files,
                    kernel_lookup_by_n_pixels, unique_task, kernel_task,
                    kernel_path_list, raster_stats_list, unique_todo,
                    unique_value, mask_task, convolution_raster_list,
                    convolution_task_list, array_vars >>

\* lines 134-146, n_pixels not in kernel_lookup_by_n_pixels
AddKernelTask ==
    /\ InRadiusLoop
    /\ LET search_radius == args.search_radius[radius_idx]
           path == eft_raster_path_list[eft_idx]
           n == n_pixels_of(search_radius, path)
           kernel_path == kernel_path_of(path, n)
           new_task == Len(task_list) + 1
       IN  /\ ~Rejected(search_radius, path)
           /\ ~InKernelCache(n, kernel_lookup_by_n_pixels)
           /\ add_task(Task("_make_radius_kernel", << n, kernel_path >>,
                            << kernel_path >>, << >>, eft_idx))
           /\ kernel_task' = new_task
           /\ kernel_lookup_by_n_pixels' =
                  (n :> [path |-> kernel_path, task |-> new_task])
                      @@ kernel_lookup_by_n_pixels
           /\ kernel_path_list' = Append(kernel_path_list,
                  [search_radius |-> search_radius, kernel_path |-> kernel_path,
                   kernel_task |-> new_task])
    /\ radius_idx' = radius_idx + 1
    /\ UNCHANGED << args, pc, eft_idx, files, unique_task, raster_stats_list,
                    unique_todo, unique_value, mask_task,
                    convolution_raster_list, convolution_task_list, array_vars >>

\* lines 134-146, n_pixels already in kernel_lookup_by_n_pixels: the path comes
\* from the cache, the task is whatever the variable kernel_task holds
ReuseKernel ==
    /\ InRadiusLoop
    /\ LET search_radius == args.search_radius[radius_idx]
           path == eft_raster_path_list[eft_idx]
           n == n_pixels_of(search_radius, path)
       IN  /\ ~Rejected(search_radius, path)
           /\ InKernelCache(n, kernel_lookup_by_n_pixels)
           /\ kernel_path_list' = Append(kernel_path_list,
                  [search_radius |-> search_radius,
                   kernel_path |-> kernel_lookup_by_n_pixels[n].path,
                   kernel_task |-> kernel_task])
    /\ radius_idx' = radius_idx + 1
    /\ UNCHANGED << args, pc, eft_idx, task_list, status, files,
                    kernel_lookup_by_n_pixels, unique_task, kernel_task,
                    raster_stats_list, unique_todo, unique_value, mask_task,
                    convolution_raster_list, convolution_task_list, array_vars >>

\* lines 148-152, and the step to the next raster or to the second loop
SaveRasterStats ==
    /\ pc = "radius"
    /\ radius_idx > Len(args.search_radius)
    /\ raster_stats_list' = Append(raster_stats_list,
           [eft_raster_path |-> eft_raster_path_list[eft_idx],
            unique_task |-> unique_task,
            kernel_path_list |-> kernel_path_list,
            local_working_dir |-> local_working_dir(eft_raster_path_list[eft_idx])])
    /\ IF eft_idx < Len(eft_raster_path_list)
       THEN eft_idx' = eft_idx + 1 /\ pc' = "add_unique"
       ELSE eft_idx' = 1 /\ pc' = "get"
    /\ UNCHANGED << args, radius_idx, task_list, status, files,
                    kernel_lookup_by_n_pixels, unique_task, kernel_task,
                    kernel_path_list, unique_todo, unique_value, mask_task,
                    convolution_raster_list, convolution_task_list, array_vars >>

stats == raster_stats_list[eft_idx]

\* line 156: unique_task.get() blocks until the task has run and returns its result
GetUniqueSet ==
    /\ pc = "get"
    /\ status[stats.unique_task] = "done"
    /\ unique_todo' = RasterInfo(task_list[stats.unique_task].args[1]).unique
    /\ pc' = "mask"
    /\ UNCHANGED << args, eft_idx, radius_idx, task_list, status, files,
                    kernel_lookup_by_n_pixels, unique_task, kernel_task,
                    kernel_path_list, raster_stats_list, unique_value, mask_task,
                    convolution_raster_list, convolution_task_list, array_vars >>

\* lines 157-170: next unique value (a set is iterated in no particular
\* order), its mask task, and the two lists emptied
AddMaskTask ==
    /\ pc = "mask"
    /\ \E value \in unique_todo :
        LET mask_raster_path == mask_raster_path_of(stats.local_working_dir, value)
        IN  /\ unique_value' = value
            /\ unique_todo' = unique_todo \ {value}
            /\ add_task(Task("_mask_by_value",
                             << stats.eft_raster_path, value, mask_raster_path >>,
                             << mask_raster_path >>, << >>, eft_idx))
    /\ mask_task' = Len(task_list) + 1
    /\ convolution_raster_list' = Bound(<< >>)
    /\ convolution_task_list' = Bound(<< >>)
    /\ radius_idx' = 1
    /\ pc' = "convolve"
    /\ UNCHANGED << args, eft_idx, files, kernel_lookup_by_n_pixels, unique_task,
                    kernel_task, kernel_path_list, raster_stats_list, array_vars >>

\* lines 171-189: one convolution task per entry of kernel_path_list
AddConvolutionTask ==
    /\ pc = "convolve"
    /\ LET entry == stats.kernel_path_list[radius_idx]
           mask_raster_path ==
               mask_raster_path_of(stats.local_working_dir, unique_value)
           convolution_raster_path ==
               convolution_raster_path_of(stats.local_working_dir,
                   mask_raster_path, unique_value, entry.search_radius)
       IN  /\ add_task(Task("convolve_2d",
                   << mask_raster_path, entry.kernel_path, convolution_raster_path >>,
                   << convolution_raster_path >>,
                   << mask_task, entry.kernel_task >>, eft_idx))
           /\ convolution_task_list' =
                  Bound(Append(convolution_task_list.items, Len(task_list) + 1))
           /\ convolution_raster_list' =
                  Bound(Append(convolution_raster_list.items, convolution_raster_path))
    /\ IF radius_idx < Len(stats.kernel_path_list)
       THEN radius_idx' = radius_idx + 1 /\ pc' = "convolve"
       ELSE radius_idx' = 1 /\ pc' = "mask"
    /\ UNCHANGED << args, eft_idx, files, kernel_lookup_by_n_pixels, unique_task,
                    kernel_task, kernel_path_list, raster_stats_list, unique_todo,
                    unique_value, mask_task, array_vars >>

NextRaster ==
    IF eft_idx < Len(raster_stats_list)
    THEN eft_idx' = eft_idx + 1 /\ pc' = "get"
    ELSE eft_idx' = eft_idx /\ pc' = "join"

\* lines 191-199: the threshold sum over whatever the two lists hold now
AddThresholdTask ==
    /\ pc = "mask"
    /\ unique_todo = {}
    /\ convolution_raster_list.bound
    /\ LET eft_count_raster_path == eft_count_raster_path_of(stats.eft_raster_path)
       IN  add_task(Task("_add_thresholds",
               << convolution_raster_list.items, eft_count_raster_path >>,
               << eft_count_raster_path >>,
               convolution_task_list.items, eft_idx))
    /\ NextRaster
    /\ UNCHANGED << args, radius_idx, files, kernel_lookup_by_n_pixels, unique_task,
                    kernel_task, kernel_path_list, raster_stats_list, unique_todo,
                    unique_value, mask_task, convolution_raster_list,
                    convolution_task_list, array_vars >>

\* line 196 when no unique value was ever visited: the name
\* convolution_raster_list is not bound
RaiseNameError ==
    /\ pc = "mask"
    /\ unique_todo = {}
    /\ ~convolution_raster_list.bound
    /\ pc' = "NameError"
    /\ UNCHANGED << args, eft_idx, radius_idx, task_list, status, files,
                    kernel_lookup_by_n_pixels, unique_task, kernel_task,
                    kernel_path_list, raster_stats_list, unique_todo,
                    unique_value, mask_task, convolution_raster_list,
                    convolution_task_list, array_vars >>

\* lines 201-202: join returns when no submitted task is left to run
Join ==
    /\ pc = "join"
    /\ \A t \in Tasks : status[t] # "pending"
    /\ pc' = "closed"
    /\ UNCHANGED << args, eft_idx, radius_idx, task_list, status, files,
                    kernel_lookup_by_n_pixels, unique_task, kernel_task,
                    kernel_path_list, raster_stats_list, unique_todo,
                    unique_value, mask_task, convolution_raster_list,
                    convolution_task_list, array_vars >>

\* ------------------------------------------------------------- the scheduler
SeqToSet(q) == { q[i] : i \in 1..Len(q) }

\* the neighbourhood count at the observed cell: the mask's category has one
\* cell, which the footprint of a kernel of n pixels holds from n = reach on
convolve_2d(mask, kernel) ==
    LET n == Len(kernel.array) \div 2
        info == RasterInfo(mask.mask_of[1])
    IN  IF n >= info.reach[mask.mask_of[2]] THEN 1 ELSE 0

\* what running the task leaves in its target file
Output(task) ==
    IF task.func = "_make_radius_kernel"
    THEN Content(circle_mask(task.args[1]), << >>, 0)
    ELSE IF task.func = "_mask_by_value"
    THEN Content(<< >>, << task.args[1], task.args[2] >>, 0)
    ELSE IF task.func = "convolve_2d"
    THEN Content(<< >>, << >>, convolve_2d(files[task.args[1]], files[task.args[2]]))
    ELSE Content(<< >>, << >>,
             add_threshold_op([i \in 1..Len(task.args[1]) |->
                                  files[task.args[1][i]].count]))

\* the raster files the task reads
Inputs(task) ==
    IF task.func = "convolve_2d" THEN { task.args[1], task.args[2] }
    ELSE IF task.func = "_add_thresholds" THEN SeqToSet(task.args[1])
    ELSE {}

\* a kernel of 0 pixels is a 0 by 0 array: whether the raster library writes
\* such a file or raises is not decided by this program, so both may happen
EmptyKernel(task) == task.func = "_make_radius_kernel" /\ task.args[1] = 0

Ready(t) ==
    /\ status[t] = "pending"
    /\ \A d \in SeqToSet(task_list[t].dependent_task_list) : status[d] # "pending"

\* a worker runs a task whose prerequisites have all finished
RunTask ==
    \E t \in Tasks :
        /\ Ready(t)
        /\ \A d \in SeqToSet(task_list[t].dependent_task_list) : status[d] = "done"
        /\ \A path \in Inputs(task_list[t]) : Exists(path)
        /\ status' = [status EXCEPT ![t] = "done"]
        /\ files' = IF task_list[t].target_path_list = << >> THEN files
                    ELSE (task_list[t].target_path_list[1] :> Output(task_list[t]))
                             @@ files
        /\ UNCHANGED << args, pc, eft_idx, radius_idx, task_list,
                        kernel_lookup_by_n_pixels, unique_task, kernel_task,
                        kernel_path_list, raster_stats_list, unique_todo,
                        unique_value, mask_task, convolution_raster_list,
                        convolution_task_list, array_vars >>

\* a task fails when a prerequisite failed or a raster it reads is missing
FailTask ==
    \E t \in Tasks :
        /\ Ready(t)
        /\ \/ \E d \in SeqToSet(task_list[t].dependent_task_list) : status[d] = "failed"
           \/ \E path \in Inputs(task_list[t]) : ~Exists(path)
           \/ EmptyKernel(task_list[t])
        /\ status' = [status EXCEPT ![t] = "failed"]
        /\ UNCHANGED << args, pc, eft_idx, radius_idx, task_list, files,
                        kernel_lookup_by_n_pixels, unique_task, kernel_task,
                        kernel_path_list, raster_stats_list, unique_todo,
                        unique_value, mask_task, convolution_raster_list,
                        convolution_task_list, array_vars >>

Next ==
    \/ AddUniqueTask
    \/ RaiseValueError
    \/ AddKernelTask
    \/ ReuseKernel
    \/ SaveRasterStats
    \/ GetUniqueSet
    \/ AddMaskTask
    \/ AddConvolutionTask
    \/ AddThresholdTask
    \/ RaiseNameError
    \/ Join
    \/ RunTask
    \/ FailTask

Spec == Init /\ [][Next]_vars

\* the first loop of main() on its own (lines 107-152): everything the kernel
\* cache is read or written by
NextPlan ==
    \/ AddUniqueTask
    \/ RaiseValueError
    \/ AddKernelTask
    \/ ReuseKernel
    \/ SaveRasterStats

SpecPlan == Init /\ [][NextPlan]_vars

\* ------------------------------------------- the array operations on their own
ArrayValues == { Num(v) : v \in 0..MaxCategory } \cup { NaN, Inf }

\* a cell that holds the no-data value; with none declared, a non-finite cell
IsNoDataCell(a, nodata) == IF nodata = None THEN ~isfinite(a) ELSE a = nodata

\* the category codes of a raster: its finite values other than no-data
Categories(array, nodata) ==
    { array[i] : i \in { j \in 1..Len(array) :
                            isfinite(array[j]) /\ ~IsNoDataCell(array[j], nodata) } }

InitArrays ==
    /\ args = [raster_path_list |-> << >>, search_radius |-> << >>, force |-> FALSE]
    /\ pc = "arrays"
    /\ InitMain
    /\ base_array \in UNION { [1..n -> ArrayValues] : n \in 1..MaxCells }
    /\ base_nodata \in ArrayValues \cup { None }
    /\ mask_value \in Categories(base_array, base_nodata)
    /\ n_pixels \in 1..MaxNPixels
    /\ target_array = << >>

\* _mask_by_value, lines 45-62
MaskByValue ==
    /\ pc = "arrays"
    /\ target_array' = mask_op(base_array, base_nodata, mask_value)
    /\ pc' = "masked"
    /\ UNCHANGED << args, eft_idx, radius_idx, task_list, status, files,
                    kernel_lookup_by_n_pixels, unique_task, kernel_task,
                    kernel_path_list, raster_stats_list, unique_todo,
                    unique_value, mask_task, convolution_raster_list,
                    convolution_task_list, base_array, base_nodata, mask_value,
                    n_pixels >>

\* _make_radius_kernel, lines 65-74
MakeRadiusKernel ==
    /\ pc = "arrays"
    /\ target_array' = circle_mask(n_pixels)
    /\ pc' = "kernel"
    /\ UNCHANGED << args, eft_idx, radius_idx, task_list, status, files,
                    kernel_lookup_by_n_pixels, unique_task, kernel_task,
                    kernel_path_list, raster_stats_list, unique_todo,
                    unique_value, mask_task, convolution_raster_list,
                    convolution_task_list, base_array, base_nodata, mask_value,
                    n_pixels >>

NextArrays ==
    \/ MaskByValue
    \/ MakeRadiusKernel

SpecArrays == InitArrays /\ [][NextArrays]_vars

\* ======================================================================
\* Properties
\* ======================================================================
TasksOf(func) == { t \in Tasks : task_list[t].func = func }

KernelTasks == TasksOf("_make_radius_kernel")
MaskTasks == TasksOf("_mask_by_value")
ConvolutionTasks == TasksOf("convolve_2d")
ThresholdTasks == TasksOf("_add_thresholds")

Deps(t) == SeqToSet(task_list[t].dependent_task_list)
Targets(t) == SeqToSet(task_list[t].target_path_list)
EftPath(t) == eft_raster_path_list[task_list[t].eft]

\* the search radius a convolution task was submitted for (third part of its
\* target's file name)
RadiusOf(t) == basename(task_list[t].args[3]).nums[3]

\* the categories of a raster that have a positive neighbourhood count at the
\* observed cell for at least one requested radius
ReachableCategories(path) ==
    { c \in RasterInfo(path).unique :
        \E i \in 1..Len(args.search_radius) :
            n_pixels_of(args.search_radius[i], path) >= RasterInfo(path).reach[c] }

\* the distinct n_pixels the requested radii resolve to for a raster
DistinctNPixels(path) ==
    { n_pixels_of(args.search_radius[i], path) : i \in 1..Len(args.search_radius) }

\* the run asks for pairwise different radii, and each of them resolves to at
\* least one pixel for every raster
CleanRun ==
    /\ \A i, j \in 1..Len(args.search_radius) :
           i # j => args.search_radius[i] # args.search_radius[j]
    /\ \A i \in 1..Len(eft_raster_path_list) :
           0 \notin DistinctNPixels(eft_raster_path_list[i])

\* C1: once the threshold task of a raster has run, the final count raster
\* holds, at a valid cell, the number of distinct categories with a positive
\* neighbourhood count at some requested radius.
C1_CountIsReachableCategories ==
    \A t \in ThresholdTasks :
        (/\ CleanRun
         /\ status[t] = "done"
         /\ \A u \in Tasks \ {t} : Targets(u) \cap Targets(t) = {})
        => files[task_list[t].args[2]].count = Cardinality(ReachableCategories(EftPath(t)))

\* C2: the threshold task of a raster lists every convolution task of that
\* raster as a prerequisite and reads its output, and it does not start
\* while one of them is still pending.
C2_AggregatorWaitsForAllCounters ==
    \A t \in ThresholdTasks : \A u \in ConvolutionTasks :
        (CleanRun /\ task_list[u].eft = task_list[t].eft)
        => /\ u \in Deps(t)
           /\ task_list[u].args[3] \in SeqToSet(task_list[t].args[1])
           /\ (status[t] # "pending" => status[u] # "pending")

\* C3: every convolution task lists as a prerequisite the kernel task whose
\* target is the kernel file it reads.
C3_CounterWaitsForItsKernelBuilder ==
    \A u \in ConvolutionTasks :
        CleanRun => \E d \in Deps(u) :
            /\ d \in KernelTasks
            /\ task_list[u].args[2] \in Targets(d)

\* the kernel tasks submitted for a number of pixels
KernelTasksFor(n) == { t \in KernelTasks : task_list[t].args[1] = n }

\* every (raster, kernel_path_list) pair main() holds: the saved ones and the
\* one under construction
KernelPathLists ==
    { << raster_stats_list[i].eft_raster_path, raster_stats_list[i].kernel_path_list >> :
        i \in 1..Len(raster_stats_list) }
    \cup (IF pc = "radius"
          THEN { << eft_raster_path_list[eft_idx], kernel_path_list >> }
          ELSE {})

\* C4: at most one kernel task is submitted per n_pixels, and every kernel
\* path main() records for a radius is the target of the one kernel task of
\* that radius's n_pixels.
C4_OneKernelPerNPixels ==
    /\ \A t, u \in KernelTasks :
           task_list[t].args[1] = task_list[u].args[1] => t = u
    /\ \A pair \in KernelPathLists : \A i \in 1..Len(pair[2]) :
           \E t \in KernelTasksFor(n_pixels_of(pair[2][i].search_radius, pair[1])) :
               Targets(t) = { pair[2][i].kernel_path }

\* the kernel file a convolution task reads is the target of the one kernel
\* task of its radius's n_pixels (C4 carried to the second loop; it holds of
\* Spec)
ConvolutionReadsTheKernelOfItsNPixels ==
    \A u \in ConvolutionTasks :
        \E t \in KernelTasksFor(n_pixels_of(RadiusOf(u), EftPath(u))) :
            Targets(t) = { task_list[u].args[2] }

\* C4 witness: two rasters were given different radii that resolve to the
\* same n_pixels >= 1, and the second one took the kernel from the cache.
C4_Witness_CrossRasterReuse ==
    /\ Len(raster_stats_list) = 2
    /\ Cardinality(KernelTasks) < 2 * Len(args.search_radius)
    /\ \E i \in 1..Len(raster_stats_list[1].kernel_path_list) :
       \E j \in 1..Len(raster_stats_list[2].kernel_path_list) :
           LET e1 == raster_stats_list[1].kernel_path_list[i]
               e2 == raster_stats_list[2].kernel_path_list[j]
           IN  /\ e1.search_radius # e2.search_radius
               /\ e1.kernel_path = e2.kernel_path
               /\ n_pixels_of(e1.search_radius, raster_stats_list[1].eft_raster_path) >= 1
               /\ n_pixels_of(e2.search_radius, raster_stats_list[2].eft_raster_path)
                      = n_pixels_of(e1.search_radius, raster_stats_list[1].eft_raster_path)

\* C5: when main() raises the ValueError for a raster, no task has been
\* submitted for that raster.
C5_NoWorkBeforeValueError ==
    pc = "ValueError" => \A t \in Tasks : task_list[t].eft # eft_idx

\* C6: every kernel task has n_pixels >= 1.
C6_NoZeroPixelKernel ==
    \A t \in KernelTasks : task_list[t].args[1] >= 1

\* C7: the mask is 1 exactly at the cells equal to the category, 2 exactly at
\* the no-data cells and 0 at every other cell.
C7_MaskPartitionsCells ==
    pc = "masked" =>
        \A i \in 1..Len(base_array) :
            /\ target_array[i] = 1 <=> base_array[i] = mask_value
            /\ target_array[i] = target_nodata <=> IsNoDataCell(base_array[i], base_nodata)
            /\ target_array[i] = 0 <=>
                   (base_array[i] # mask_value /\ ~IsNoDataCell(base_array[i], base_nodata))

\* the mask claim restricted to a no-data value that is a number, an infinity
\* or not declared (recorded for reference; it holds)
MaskPartitionsCellsUnlessNaN ==
    (pc = "masked" /\ base_nodata # NaN) =>
        \A i \in 1..Len(base_array) :
            /\ target_array[i] = 1 <=> base_array[i] = mask_value
            /\ target_array[i] = target_nodata <=> IsNoDataCell(base_array[i], base_nodata)

\* grid transformations of a square grid of side m
Side(grid) == Len(grid)
Rot90(grid) ==
    [r \in 1..Side(grid) |-> [c \in 1..Side(grid) |-> grid[c][Side(grid) + 1 - r]]]
FlipRows(grid) ==
    [r \in 1..Side(grid) |-> grid[Side(grid) + 1 - r]]
FlipColumns(grid) ==
    [r \in 1..Side(grid) |-> [c \in 1..Side(grid) |-> grid[r][Side(grid) + 1 - c]]]
Transpose(grid) ==
    [r \in 1..Side(grid) |-> [c \in 1..Side(grid) |-> grid[c][r]]]
\* the grid without its first row and first column
Inner(grid) ==
    [r \in 1..(Side(grid) - 1) |-> [c \in 1..(Side(grid) - 1) |-> grid[r + 1][c + 1]]]

\* C8 as stated: the kernel grid is unchanged by a 90 degree rotation, by row
\* reversal and by column reversal.
C8_KernelRotationReflectionSymmetric ==
    pc = "kernel" =>
        /\ Rot90(target_array) = target_array
        /\ FlipRows(target_array) = target_array
        /\ FlipColumns(target_array) = target_array

\* C8 amended: the kernel grid is unchanged by transposition; its first row
\* and first column are all 0, and the grid without them is unchanged by a
\* 90 degree rotation, by row reversal and by column reversal.
C8_KernelSymmetricAboutCell ==
    pc = "kernel" =>
        /\ Side(target_array) = 2 * n_pixels
        /\ Transpose(target_array) = target_array
        /\ \A k \in 1..Side(target_array) :
               ~target_array[1][k] /\ ~target_array[k][1]
        /\ Rot90(Inner(target_array)) = Inner(target_array)
        /\ FlipRows(Inner(target_array)) = Inner(target_array)
        /\ FlipColumns(Inner(target_array)) = Inner(target_array)

\* C8 witness: a kernel of at least 2 pixels was built, with a set cell in
\* its last row.
C8_Witness_KernelBuilt ==
    /\ pc = "kernel"
    /\ n_pixels >= 2
    /\ \E c \in 1..Side(target_array) : target_array[Side(target_array)][c]

\* C9: no two submitted tasks that differ in function or arguments share a
\* target path.
C9_OneWriterPerPath ==
    \A t, u \in Tasks :
        (CleanRun /\ t # u /\ Targets(t) \cap Targets(u) # {})
        => (task_list[t].func = task_list[u].func /\ task_list[t].args = task_list[u].args)

\* C10: when the threshold task of a raster is submitted, the raster has one
\* mask task per category, no two of its convolution tasks have the same
\* mask and kernel, and their number is categories times distinct n_pixels.
C10_OneCounterPerMaskKernelPair ==
    \A t \in ThresholdTasks :
        LET mine(S) == { u \in S : task_list[u].eft = task_list[t].eft }
        IN  CleanRun =>
            /\ Cardinality(mine(MaskTasks)) = Cardinality(RasterInfo(EftPath(t)).unique)
            /\ \A u, w \in mine(ConvolutionTasks) :
                   u # w => << task_list[u].args[1], task_list[u].args[2] >>
                                # << task_list[w].args[1], task_list[w].args[2] >>
            /\ Cardinality(mine(ConvolutionTasks)) =
                   Cardinality(RasterInfo(EftPath(t)).unique)
                       * Cardinality(DistinctNPixels(EftPath(t)))

====
